---- MODULE Spec2Model ----
(***************************************************************************)
(* Model of the CDI device-injection modifier (internal/modifier/cdi.go)   *)
(* and of the containerd config builder and its version 1 policy.          *)
(*                                                                         *)
(* Strings that the code parses or formats (device names, kinds) are       *)
(* sequences of one-character strings, so that Sprintf and the qualified   *)
(* name parser are computed and not assumed.                               *)
(***************************************************************************)
EXTENDS Integers, Sequences, FiniteSets, TLC

\* ------------------------------------------------------------------ bounds
MaxEnvLen == 3
MaxAnnLen == 2
MaxOps == 2

\* ------------------------------------------------------------ string tools
Nil == "nil"

\* Index of the first occurrence of ch in s, 0 when there is none.
RECURSIVE IndexFrom(_, _, _)
IndexFrom(s, ch, i) ==
  IF i > Len(s) THEN 0
  ELSE IF s[i] = ch THEN i
  ELSE IndexFrom(s, ch, i + 1)

IndexOf(s, ch) == IndexFrom(s, ch, 1)

AlphaNumeric == {"v", "c", "w", "d", "g", "p", "u", "s", "a", "0", "1"}

AllIn(s, chars) == \A i \in 1..Len(s) : s[i] \in chars

\* cdi.ParseQualifier: kind -> <<vendor, class>>, vendor empty when the kind
\* has no "vendor/class" form.
ParseQualifier(kind) ==
  LET i == IndexOf(kind, "/") IN
  IF i = 0 \/ i = 1 \/ i = Len(kind)
    THEN <<(<<>>), kind>>
    ELSE <<SubSeq(kind, 1, i - 1), SubSeq(kind, i + 1, Len(kind))>>

\* cdi.ParseDevice: device -> <<vendor, class, name>>; vendor and class are
\* empty when the device is not of the form kind=name.
ParseDevice(device) ==
  LET i == IndexOf(device, "=") IN
  IF device = <<>> \/ device[1] = "/" THEN <<(<<>>), <<>>, device>>
  ELSE IF i = 0 \/ i = 1 \/ i = Len(device) THEN <<(<<>>), <<>>, device>>
  ELSE LET q == ParseQualifier(SubSeq(device, 1, i - 1)) IN
       IF q[1] = <<>> THEN <<(<<>>), <<>>, device>>
       ELSE <<q[1], q[2], SubSeq(device, i + 1, Len(device))>>

\* cdi.IsQualifiedName: vendor/class=name with a non-empty vendor, class and
\* name, each made of legal characters only.
IsQualifiedName(device) ==
  LET p == ParseDevice(device) IN
  /\ p[1] # <<>>
  /\ p[2] # <<>>
  /\ p[3] # <<>>
  /\ AllIn(p[1], AlphaNumeric)
  /\ AllIn(p[2], AlphaNumeric)
  /\ AllIn(p[3], AlphaNumeric)

\* fmt.Sprintf("%s=%s", kind, name)
SprintfKindName(kind, name) == kind \o <<"=">> \o name

\* ------------------------------------------------------------------ inputs
GpuKind == <<"v", "/", "c">>
BadKind == <<"g", "p", "u", "s">>
DefaultKinds == {GpuKind, BadKind}

Bare0 == <<"0">>
Qual0 == <<"v", "/", "c", "=", "0">>
QualW == <<"w", "/", "d", "=", "1">>
BareEq == <<"a", "=", "0">>

EnvNames == {Bare0, Qual0, BareEq}

\* An annotation of the OCI spec: whether its key has the CDI prefix
\* "cdi.k8s.io/" and the device names its value lists.  One CDI annotation
\* names a device that is not qualified, and one annotation is not a CDI
\* annotation.
Annotations ==
  { [cdi |-> TRUE,  devices |-> <<Qual0>>],
    [cdi |-> TRUE,  devices |-> <<QualW, Qual0>>],
    [cdi |-> TRUE,  devices |-> <<Bare0>>],
    [cdi |-> FALSE, devices |-> <<Bare0>>] }

RECURSIVE SeqsUpTo(_, _)
SeqsUpTo(S, n) ==
  IF n = 0 THEN {<<>>}
  ELSE LET shorter == SeqsUpTo(S, n - 1) IN
       shorter \cup {Append(s, x) : s \in {t \in shorter : Len(t) = n - 1}, x \in S}

DefaultSpecDirs == <<"/etc/cdi", "/var/run/cdi">>
SpecDirsChoices == {<<>>, <<"/custom/cdi">>}

\* The OCI spec as the modifier sees it: whether Load fails, the values of
\* the CDI annotations, the entries of the visible devices variable, whether
\* the image can be built from the spec, and the privileged flag.  A spec
\* that fails to load has no content, and one from which no image can be
\* built has no device list.
OciSpecs ==
  {[ loadErr |-> TRUE, annotations |-> <<>>, imageErr |-> FALSE,
     envDevices |-> <<>>, privileged |-> FALSE ]}
  \cup [ loadErr     : {FALSE},
         annotations : SeqsUpTo(Annotations, MaxAnnLen),
         imageErr    : {TRUE},
         envDevices  : {<<>>},
         privileged  : BOOLEAN ]
  \cup [ loadErr     : {FALSE},
         annotations : SeqsUpTo(Annotations, MaxAnnLen),
         imageErr    : {FALSE},
         envDevices  : SeqsUpTo(EnvNames, MaxEnvLen),
         privileged  : BOOLEAN ]

Configs ==
  [ AcceptEnvvarUnprivileged : BOOLEAN,
    DefaultKind              : DefaultKinds,
    SpecDirs                 : SpecDirsChoices ]

NoSpec == [ loadErr |-> FALSE, annotations |-> <<>>, imageErr |-> FALSE,
            envDevices |-> <<>>, privileged |-> FALSE ]
NoCfg  == [ AcceptEnvvarUnprivileged |-> FALSE, DefaultKind |-> GpuKind,
            SpecDirs |-> <<>> ]

\* ----------------------------------------------------------------- state
VARIABLES
  pc,         \* "start", "constructed"
  ociSpec,    \* the OCI spec handed to NewCDIModifier
  cfg,        \* the configuration handed to NewCDIModifier
  resolved,   \* what getDevicesFromSpec returned: [devices, err, path, envRead]
  modifier,   \* the modifier NewCDIModifier returned: [isNil, specDirs, devices]
  newErr,     \* the error returned by NewCDIModifier, Nil when none
  trace,      \* the registry calls of the last Modify, in order
  modifyErr   \* the error returned by the last Modify, Nil when none

cdiVars == <<pc, ociSpec, cfg, resolved, modifier, newErr, trace, modifyErr>>

VARIABLES
  cpc,       \* "unbuilt", "built" (a policy was returned), "failed"
  file,      \* what is at the config path
  builder,   \* the builder: [path, runtimeType, useLegacyConfig]
  tree,      \* the Tree of the Config
  config,    \* the policy build returned: [kind, RuntimeType, UseDefaultRuntimeName]
  buildErr,  \* the error build returned, Nil when none
  loaded,    \* what loadConfig did: [called, loadFile, err]
  parsed,    \* what parseVersion returned, when build called it
  before,    \* the tree before the last Update
  lastOp,    \* the last operation and its options
  nOps       \* number of operations applied to the tree

cfgVars == <<cpc, file, builder, tree, config, buildErr, loaded, parsed, before, lastOp, nOps>>

\* ------------------------------------------------------ getDevicesFromSpec
\* cdi.ParseAnnotations: the devices of the annotations whose key has the
\* CDI prefix, in the order the annotations are visited; a device that is not
\* a qualified name fails the parse.  Other annotations are skipped.
RECURSIVE ParseAnnotationsFrom(_, _, _)
ParseAnnotationsFrom(annotations, i, devices) ==
  IF i > Len(annotations) THEN [devices |-> devices, err |-> Nil]
  ELSE IF ~annotations[i].cdi THEN ParseAnnotationsFrom(annotations, i + 1, devices)
  ELSE IF \E k \in 1..Len(annotations[i].devices) : ~IsQualifiedName(annotations[i].devices[k])
    THEN [devices |-> <<>>, err |-> "invalid CDI device name"]
  ELSE ParseAnnotationsFrom(annotations, i + 1, devices \o annotations[i].devices)

ParseAnnotations(annotations) == ParseAnnotationsFrom(annotations, 1, <<>>)

\* Mutant: the default kind is never prefixed.
RECURSIVE ResolveLoopNoPrefix(_, _, _, _, _)
ResolveLoopNoPrefix(list, kind, i, devices, seen) ==
  IF i > Len(list) THEN devices
  ELSE IF list[i] \in seen
    THEN ResolveLoopNoPrefix(list, kind, i + 1, devices, seen)
    ELSE ResolveLoopNoPrefix(list, kind, i + 1, Append(devices, list[i]), seen)

\* The loop of getDevicesFromSpec over envDevices.List(): qualify, skip what
\* the seen map holds, append.  The map is created empty and the loop never
\* stores into it.
RECURSIVE ResolveLoop(_, _, _, _, _)
ResolveLoop(list, kind, i, devices, seen) ==
  IF i > Len(list) THEN devices
  ELSE LET name == IF ~IsQualifiedName(list[i])
                     THEN SprintfKindName(kind, list[i])
                     ELSE list[i]
       IN IF name \in seen
            THEN ResolveLoop(list, kind, i + 1, devices, seen)
            ELSE ResolveLoop(list, kind, i + 1, Append(devices, name), seen)

IsPrivileged(spec) == spec.privileged

\* Mutant: the privilege policy is not applied to the environment devices.
EnvDevicesNoPolicy(spec, c) ==
  LET devices == ResolveLoop(spec.envDevices, c.DefaultKind, 1, <<>>, {}) IN
  [devices |-> devices, err |-> Nil, path |-> "env", envRead |-> TRUE]

\* getDevicesFromSpec from the read of the visible devices variable on: the
\* list is resolved, and an empty or rejected list is returned as no devices.
EnvDevices(spec, c) ==
  LET devices == ResolveLoop(spec.envDevices, c.DefaultKind, 1, <<>>, {}) IN
  IF Len(devices) = 0
    THEN [devices |-> <<>>, err |-> Nil, path |-> "env", envRead |-> TRUE]
  ELSE IF c.AcceptEnvvarUnprivileged \/ IsPrivileged(spec)
    THEN [devices |-> devices, err |-> Nil, path |-> "env", envRead |-> TRUE]
  ELSE [devices |-> <<>>, err |-> Nil, path |-> "env", envRead |-> TRUE]

\* Mutant: the annotation devices are used only when the environment names
\* no device.
getDevicesFromSpecEnvFirst(spec, c) ==
  IF spec.loadErr
    THEN [devices |-> <<>>, err |-> "failed to load OCI spec", path |-> "load", envRead |-> FALSE]
  ELSE LET ann == ParseAnnotations(spec.annotations) IN
  IF ann.err # Nil
    THEN [devices |-> <<>>, err |-> "failed to parse container annotations", path |-> "annotations", envRead |-> FALSE]
  ELSE IF Len(ann.devices) > 0 /\ Len(spec.envDevices) = 0
    THEN [devices |-> ann.devices, err |-> Nil, path |-> "annotations", envRead |-> TRUE]
  ELSE IF spec.imageErr
    THEN [devices |-> <<>>, err |-> "failed to create image", path |-> "image", envRead |-> FALSE]
  ELSE EnvDevices(spec, c)

getDevicesFromSpec(spec, c) ==
  IF spec.loadErr
    THEN [devices |-> <<>>, err |-> "failed to load OCI spec", path |-> "load", envRead |-> FALSE]
  ELSE LET ann == ParseAnnotations(spec.annotations) IN
  IF ann.err # Nil
    THEN [devices |-> <<>>, err |-> "failed to parse container annotations", path |-> "annotations", envRead |-> FALSE]
  ELSE IF Len(ann.devices) > 0
    THEN [devices |-> ann.devices, err |-> Nil, path |-> "annotations", envRead |-> FALSE]
  ELSE IF spec.imageErr
    THEN [devices |-> <<>>, err |-> "failed to create image", path |-> "image", envRead |-> FALSE]
  ELSE EnvDevices(spec, c)

\* ---------------------------------------------------------- NewCDIModifier
NilModifier == [isNil |-> TRUE, specDirs |-> <<>>, devices |-> <<>>]

\* Mutant: a modifier is built also when no device was resolved.
NewCDIModifierAlways(spec, c) ==
  LET r == getDevicesFromSpec(spec, c) IN
  IF r.err # Nil
    THEN [modifier |-> NilModifier, err |-> "failed to get required devices from OCI specification"]
  ELSE [modifier |-> [isNil    |-> FALSE,
                      specDirs |-> IF Len(c.SpecDirs) > 0 THEN c.SpecDirs ELSE DefaultSpecDirs,
                      devices  |-> r.devices],
        err |-> Nil]

NewCDIModifierResult(spec, c) ==
  LET r == getDevicesFromSpec(spec, c) IN
  IF r.err # Nil
    THEN [modifier |-> NilModifier, err |-> "failed to get required devices from OCI specification"]
  ELSE IF Len(r.devices) = 0
    THEN [modifier |-> NilModifier, err |-> Nil]
  ELSE [modifier |-> [isNil    |-> FALSE,
                      specDirs |-> IF Len(c.SpecDirs) > 0 THEN c.SpecDirs ELSE DefaultSpecDirs,
                      devices  |-> r.devices],
        err |-> Nil]

NoResolved == [devices |-> <<>>, err |-> Nil, path |-> "none", envRead |-> FALSE]

NewCDIModifier ==
  /\ pc = "start"
  /\ \E spec \in OciSpecs, c \in Configs :
       LET res == NewCDIModifierResult(spec, c) IN
       /\ ociSpec' = spec
       /\ cfg' = c
       /\ resolved' = getDevicesFromSpec(spec, c)
       /\ modifier' = res.modifier
       /\ newErr' = res.err
  /\ pc' = "constructed"
  /\ UNCHANGED <<trace, modifyErr>>
  /\ UNCHANGED cfgVars

\* ------------------------------------------------------ cdiModifier.Modify
\* The calls Modify makes on the registry, in order, and its result, for the
\* given outcomes of Refresh and InjectDevices.
\* Mutant: a failed Refresh ends Modify.
ModifyCallsRefreshFatal(m, refreshErr, injectErr) ==
  IF refreshErr
    THEN << [op |-> "GetRegistry", specDirs |-> m.specDirs, devices |-> <<>>, failed |-> FALSE],
            [op |-> "Refresh", specDirs |-> <<>>, devices |-> <<>>, failed |-> refreshErr] >>
    ELSE << [op |-> "GetRegistry", specDirs |-> m.specDirs, devices |-> <<>>, failed |-> FALSE],
            [op |-> "Refresh", specDirs |-> <<>>, devices |-> <<>>, failed |-> refreshErr],
            [op |-> "InjectDevices", specDirs |-> <<>>, devices |-> m.devices, failed |-> injectErr] >>

ModifyCalls(m, refreshErr, injectErr) ==
  << [op |-> "GetRegistry", specDirs |-> m.specDirs, devices |-> <<>>, failed |-> FALSE],
     [op |-> "Refresh", specDirs |-> <<>>, devices |-> <<>>, failed |-> refreshErr],
     [op |-> "InjectDevices", specDirs |-> <<>>, devices |-> m.devices, failed |-> injectErr] >>

\* Mutant: a failed Refresh is reported as Modify's error.
ModifyResultRefreshReported(m, refreshErr, injectErr) ==
  IF refreshErr \/ injectErr THEN "failed to inject CDI devices" ELSE Nil

ModifyResult(m, refreshErr, injectErr) ==
  IF injectErr THEN "failed to inject CDI devices" ELSE Nil

Modify ==
  /\ pc = "constructed"
  /\ ~modifier.isNil
  /\ \E refreshErr \in BOOLEAN, injectErr \in BOOLEAN :
       /\ trace' = ModifyCalls(modifier, refreshErr, injectErr)
       /\ modifyErr' = ModifyResult(modifier, refreshErr, injectErr)
  /\ UNCHANGED <<pc, ociSpec, cfg, resolved, modifier, newErr>>
  /\ UNCHANGED cfgVars

\* ===================================================== containerd config
\* ------------------------------------------------------------ config tree
\* A value of the TOML document.  Strings are sequences of chunks, so that
\* joining a directory and a binary name is computed.
Table     == [t |-> "table", i |-> 0, s |-> <<>>, b |-> FALSE, l |-> <<>>]
IntV(n)   == [t |-> "int",   i |-> n, s |-> <<>>, b |-> FALSE, l |-> <<>>]
StrV(str) == [t |-> "str",   i |-> 0, s |-> str,  b |-> FALSE, l |-> <<>>]
BoolV(x)  == [t |-> "bool",  i |-> 0, s |-> <<>>, b |-> x,     l |-> <<>>]
ListV(xs) == [t |-> "list",  i |-> 0, s |-> <<>>, b |-> FALSE, l |-> xs]

\* A tree is a function from the paths it holds (tables and leaves) to their
\* values; the table a key lives in is always held too.  The operations end
\* in @@ <<>>, which leaves the function as it is (<<>> has an empty domain)
\* and makes its evaluation strict.
EmptyTree == [q \in {} |-> Table]

HasPrefix(q, p) == Len(q) >= Len(p) /\ SubSeq(q, 1, Len(p)) = p

Prefixes(p) == {SubSeq(p, 1, n) : n \in 1..Len(p)}

\* Tree.GetPath / Tree.Get: whether the path holds a value
Has(tr, p) == p \in DOMAIN tr

\* Tree.Keys: the top-level keys
Keys(tr) == {q[1] : q \in DOMAIN tr}

\* Tree.DeletePath: the path and everything below it
DeletePath(tr, p) ==
  [q \in {r \in DOMAIN tr : ~HasPrefix(r, p)} |-> tr[q]] @@ <<>>

\* Tree.SetPath with a scalar: the tables on the way are created, what was at
\* the path is replaced.
SetPath(tr, p, v) ==
  LET cleared == DeletePath(tr, p) IN
  [q \in (DOMAIN cleared) \cup Prefixes(p) |->
    IF q = p THEN v
    ELSE IF q \in DOMAIN cleared THEN cleared[q]
    ELSE Table] @@ <<>>

\* The sub-tree at a path, with paths relative to it.
SubTree(tr, p) ==
  [r \in {SubSeq(q, Len(p) + 1, Len(q)) : q \in {x \in DOMAIN tr : HasPrefix(x, p) /\ x # p}}
    |-> tr[p \o r]] @@ <<>>

\* Tree.SetPath with a tree: the sub-tree replaces what was at the path.
SetTree(tr, p, sub) ==
  LET base == SetPath(tr, p, Table) IN
  [q \in (DOMAIN base) \cup {p \o r : r \in DOMAIN sub} |->
    IF q \in DOMAIN base THEN base[q]
    ELSE sub[SubSeq(q, Len(p) + 1, Len(q))]] @@ <<>>

\* ---------------------------------------------------------------- builder
defaultRuntimeType == <<"io.containerd.runc.v2">>

RuntimesPath == <<"plugins", "cri", "containerd", "runtimes">>
ContainerdPath == <<"plugins", "cri", "containerd">>

\* Mutant: the runc entry of the tests without its own option.
runcConfigMapV1NoOption(binary) ==
  LET runc == RuntimesPath \o <<"runc">> IN
  [q \in Prefixes(runc) \cup
         { runc \o <<"runtime_type">>, runc \o <<"runtime_root">>,
           runc \o <<"runtime_engine">>, runc \o <<"privileged_without_host_devices">>,
           runc \o <<"options">>, runc \o <<"options", "BinaryName">> } |->
     IF q = runc \o <<"runtime_type">> THEN StrV(<<"runc_runtime_type">>)
     ELSE IF q = runc \o <<"runtime_root">> THEN StrV(<<"runc_runtime_root">>)
     ELSE IF q = runc \o <<"runtime_engine">> THEN StrV(<<"runc_runtime_engine">>)
     ELSE IF q = runc \o <<"privileged_without_host_devices">> THEN BoolV(TRUE)
     ELSE IF q = runc \o <<"options", "BinaryName">> THEN StrV(binary)
     ELSE Table]

\* runcConfigMapV1(binary): the document of the tests that holds a runc entry
runcConfigMapV1(binary) ==
  LET runc == RuntimesPath \o <<"runc">> IN
  [q \in Prefixes(runc) \cup
         { runc \o <<"runtime_type">>, runc \o <<"runtime_root">>,
           runc \o <<"runtime_engine">>, runc \o <<"privileged_without_host_devices">>,
           runc \o <<"options">>, runc \o <<"options", "runc-option">>,
           runc \o <<"options", "BinaryName">> } |->
     IF q = runc \o <<"runtime_type">> THEN StrV(<<"runc_runtime_type">>)
     ELSE IF q = runc \o <<"runtime_root">> THEN StrV(<<"runc_runtime_root">>)
     ELSE IF q = runc \o <<"runtime_engine">> THEN StrV(<<"runc_runtime_engine">>)
     ELSE IF q = runc \o <<"privileged_without_host_devices">> THEN BoolV(TRUE)
     ELSE IF q = runc \o <<"options", "runc-option">> THEN StrV(<<"value">>)
     ELSE IF q = runc \o <<"options", "BinaryName">> THEN StrV(binary)
     ELSE Table]

RuncBinary == <<"/runc-binary">>

\* A document with an unrelated top-level section only.
OtherDoc == SetPath(EmptyTree, <<"debug", "level">>, StrV(<<"info">>))

\* The documents a config file can hold.
Docs ==
  { EmptyTree,
    SetPath(EmptyTree, <<"version">>, IntV(1)),
    SetPath(EmptyTree, <<"version">>, IntV(2)),
    SetPath(EmptyTree, <<"version">>, IntV(3)),
    SetPath(EmptyTree, <<"version">>, StrV(<<"2">>)),
    SetPath(EmptyTree, <<"version">>, BoolV(TRUE)),
    OtherDoc,
    SetPath(OtherDoc, <<"version">>, IntV(2)),
    SetPath(OtherDoc, <<"version">>, StrV(<<"1">>)),
    runcConfigMapV1(RuncBinary),
    SetPath(runcConfigMapV1(RuncBinary), <<"version">>, IntV(1)) }

\* What is at the config path: nothing, a directory, a file that cannot be
\* read or parsed, or a file holding a document.
Files ==
  {[kind |-> k, doc |-> EmptyTree] : k \in {"missing", "dir", "malformed"}}
  \cup {[kind |-> "file", doc |-> d] : d \in Docs}

Builders ==
  [ path            : {"", "/etc/containerd/config.toml"},
    runtimeType     : {<<>>, <<"custom.runtime.type">>},
    useLegacyConfig : BOOLEAN ]

NoConfig == [kind |-> "nil", RuntimeType |-> <<>>, UseDefaultRuntimeName |-> FALSE]
NoParse  == [called |-> FALSE, version |-> 0, err |-> Nil]
NoLoad   == [called |-> FALSE, loadFile |-> "none", err |-> Nil]
NoOp     == [op |-> "none", runtimeClass |-> "", setAsDefault |-> FALSE, runtimeDir |-> <<>>]


\* os.Stat on the config path: the error and whether it is a directory
Stat(f) ==
  IF f.kind = "missing" THEN [err |-> "ENOENT", isDir |-> FALSE]
  ELSE [err |-> Nil, isDir |-> f.kind = "dir"]

\* os.IsExist: true of the errors that report that a file already exists
IsExist(err) == err = "EEXIST"

\* os.IsNotExist
IsNotExist(err) == err = "ENOENT"

\* toml.LoadFile: /dev/null is the empty document; a directory cannot be read
TomlLoadFile(f, devNull) ==
  IF devNull THEN [tree |-> EmptyTree, err |-> Nil]
  ELSE IF f.kind = "dir" THEN [tree |-> EmptyTree, err |-> "read: is a directory"]
  ELSE IF f.kind = "malformed" THEN [tree |-> EmptyTree, err |-> "toml: parse error"]
  ELSE IF f.kind = "missing" THEN [tree |-> EmptyTree, err |-> "open: no such file"]
  ELSE [tree |-> f.doc, err |-> Nil]

\* Mutant: a path that does not exist is loaded as it is.
loadConfigNoDevNull(f) ==
  LET st == Stat(f) IN
  IF IsExist(st.err) /\ st.isDir
    THEN [tree |-> EmptyTree, err |-> "config file is a directory", loadFile |-> "none"]
  ELSE LET r == TomlLoadFile(f, FALSE)
       IN [tree |-> r.tree, err |-> r.err, loadFile |-> "path"]

\* loadConfig: the document, the error, and the file toml.LoadFile was given
\* ("none" when it was not called)
loadConfig(f) ==
  LET st == Stat(f) IN
  IF IsExist(st.err) /\ st.isDir
    THEN [tree |-> EmptyTree, err |-> "config file is a directory", loadFile |-> "none"]
  ELSE LET r == TomlLoadFile(f, IsNotExist(st.err))
       IN [tree |-> r.tree, err |-> r.err,
           loadFile |-> IF IsNotExist(st.err) THEN "/dev/null" ELSE "path"]

\* Mutant: a document without a version key is always the default version.
parseVersionIgnoreKeys(tr, useLegacyConfig) ==
  LET defaultVersion == IF useLegacyConfig THEN 1 ELSE 2 IN
  IF ~Has(tr, <<"version">>) THEN [version |-> defaultVersion, err |-> Nil]
  ELSE IF tr[<<"version">>].t = "int" THEN [version |-> tr[<<"version">>].i, err |-> Nil]
  ELSE [version |-> -1, err |-> "unsupported type for version field"]

\* Mutant: an integer version gives way to the default version.
parseVersionDefaultFirst(tr, useLegacyConfig) ==
  LET defaultVersion == IF useLegacyConfig THEN 1 ELSE 2 IN
  IF ~Has(tr, <<"version">>)
    THEN IF Cardinality(Keys(tr)) = 0
           THEN [version |-> defaultVersion, err |-> Nil]
           ELSE [version |-> 1, err |-> Nil]
  ELSE IF tr[<<"version">>].t = "int"
    THEN [version |-> defaultVersion, err |-> Nil]
  ELSE [version |-> -1, err |-> "unsupported type for version field"]

parseVersion(tr, useLegacyConfig) ==
  LET defaultVersion == IF useLegacyConfig THEN 1 ELSE 2 IN
  IF ~Has(tr, <<"version">>)
    THEN IF Cardinality(Keys(tr)) = 0
           THEN [version |-> defaultVersion, err |-> Nil]
           ELSE [version |-> 1, err |-> Nil]
  ELSE IF tr[<<"version">>].t = "int"
    THEN [version |-> tr[<<"version">>].i, err |-> Nil]
  ELSE [version |-> -1, err |-> "unsupported type for version field"]

\* Mutant: any other version is taken for version 2.
buildAnyVersionV2(b, f) ==
  IF b.path = ""
    THEN [config |-> NoConfig, err |-> "config path is empty", tree |-> EmptyTree,
          parsed |-> NoParse, loaded |-> NoLoad]
  ELSE LET runtimeType == IF b.runtimeType = <<>> THEN defaultRuntimeType ELSE b.runtimeType
           cfgLoaded == loadConfig(f)
           l == [called |-> TRUE, loadFile |-> cfgLoaded.loadFile, err |-> cfgLoaded.err]
       IN
  IF cfgLoaded.err # Nil
    THEN [config |-> NoConfig, err |-> "failed to load config", tree |-> EmptyTree,
          parsed |-> NoParse, loaded |-> l]
  ELSE LET pv == parseVersion(cfgLoaded.tree, b.useLegacyConfig)
           p  == [called |-> TRUE, version |-> pv.version, err |-> pv.err]
       IN
  IF pv.err # Nil
    THEN [config |-> NoConfig, err |-> "failed to parse config version", tree |-> cfgLoaded.tree,
          parsed |-> p, loaded |-> l]
  ELSE IF pv.version = 1
    THEN [config |-> [kind |-> "V1", RuntimeType |-> runtimeType, UseDefaultRuntimeName |-> ~b.useLegacyConfig],
          err |-> Nil, tree |-> cfgLoaded.tree, parsed |-> p, loaded |-> l]
  ELSE [config |-> [kind |-> "V2", RuntimeType |-> runtimeType, UseDefaultRuntimeName |-> ~b.useLegacyConfig],
        err |-> Nil, tree |-> cfgLoaded.tree, parsed |-> p, loaded |-> l]

\* builder.build: what it returns and what it leaves behind
build(b, f) ==
  IF b.path = ""
    THEN [config |-> NoConfig, err |-> "config path is empty", tree |-> EmptyTree,
          parsed |-> NoParse, loaded |-> NoLoad]
  ELSE LET runtimeType == IF b.runtimeType = <<>> THEN defaultRuntimeType ELSE b.runtimeType
           cfgLoaded == loadConfig(f)
           l == [called |-> TRUE, loadFile |-> cfgLoaded.loadFile, err |-> cfgLoaded.err]
       IN
  IF cfgLoaded.err # Nil
    THEN [config |-> NoConfig, err |-> "failed to load config", tree |-> EmptyTree,
          parsed |-> NoParse, loaded |-> l]
  ELSE LET pv == parseVersion(cfgLoaded.tree, b.useLegacyConfig)
           p  == [called |-> TRUE, version |-> pv.version, err |-> pv.err]
       IN
  IF pv.err # Nil
    THEN [config |-> NoConfig, err |-> "failed to parse config version", tree |-> cfgLoaded.tree,
          parsed |-> p, loaded |-> l]
  ELSE IF pv.version = 1
    THEN [config |-> [kind |-> "V1", RuntimeType |-> runtimeType, UseDefaultRuntimeName |-> ~b.useLegacyConfig],
          err |-> Nil, tree |-> cfgLoaded.tree, parsed |-> p, loaded |-> l]
  ELSE IF pv.version = 2
    THEN [config |-> [kind |-> "V2", RuntimeType |-> runtimeType, UseDefaultRuntimeName |-> ~b.useLegacyConfig],
          err |-> Nil, tree |-> cfgLoaded.tree, parsed |-> p, loaded |-> l]
  ELSE [config |-> NoConfig, err |-> "unsupported config version", tree |-> cfgLoaded.tree,
        parsed |-> p, loaded |-> l]

Build ==
  /\ cpc = "unbuilt"
  /\ \E b \in Builders, f \in Files :
       LET r == build(b, f) IN
       /\ builder' = b
       /\ file' = f
       /\ tree' = r.tree
       /\ config' = r.config
       /\ buildErr' = r.err
       /\ parsed' = r.parsed
       /\ loaded' = r.loaded
       /\ cpc' = IF r.err = Nil THEN "built" ELSE "failed"
  /\ UNCHANGED <<before, lastOp, nOps>>
  /\ UNCHANGED cdiVars

\* ------------------------------------------------- tests: ConfigV1 literal
\* The runtime type the tests configure.
runtimeType == <<"runtime_type">>

testRuntimeDir == <<"/test/runtime/dir">>

\* ------------------------------------------------ tests: expected configs
\* A tree made from a function from paths to values, tables added.
TreeFromMap(leaves) ==
  [q \in (DOMAIN leaves) \cup UNION {Prefixes(p) : p \in DOMAIN leaves} |->
     IF q \in DOMAIN leaves THEN leaves[q] ELSE Table]

\* Mutant: the expected entry carries no Runtime option.
expectedRuntimeV1NoRuntime(binary) ==
  TreeFromMap(
    (<<"runtime_type">> :> StrV(runtimeType)) @@
    (<<"runtime_root">> :> StrV(<<>>)) @@
    (<<"runtime_engine">> :> StrV(<<>>)) @@
    (<<"privileged_without_host_devices">> :> BoolV(FALSE)) @@
    (<<"container_annotations">> :> ListV(<<"cdi.k8s.io/*">>)) @@
    (<<"options", "BinaryName">> :> StrV(binary)))

\* The runtime entry TestUpdateV1Config expects for a binary.
expectedRuntimeV1(binary) ==
  TreeFromMap(
    (<<"runtime_type">> :> StrV(runtimeType)) @@
    (<<"runtime_root">> :> StrV(<<>>)) @@
    (<<"runtime_engine">> :> StrV(<<>>)) @@
    (<<"privileged_without_host_devices">> :> BoolV(FALSE)) @@
    (<<"container_annotations">> :> ListV(<<"cdi.k8s.io/*">>)) @@
    (<<"options", "BinaryName">> :> StrV(binary)) @@
    (<<"options", "Runtime">> :> StrV(binary)))

\* The runtime entry TestUpdateV1ConfigWithRuncPresent expects for a binary.
expectedRuntimeV1WithRunc(binary) ==
  TreeFromMap(
    (<<"runtime_type">> :> StrV(<<"runc_runtime_type">>)) @@
    (<<"runtime_root">> :> StrV(<<"runc_runtime_root">>)) @@
    (<<"runtime_engine">> :> StrV(<<"runc_runtime_engine">>)) @@
    (<<"privileged_without_host_devices">> :> BoolV(TRUE)) @@
    (<<"container_annotations">> :> ListV(<<"cdi.k8s.io/*">>)) @@
    (<<"options", "runc-option">> :> StrV(<<"value">>)) @@
    (<<"options", "BinaryName">> :> StrV(binary)) @@
    (<<"options", "Runtime">> :> StrV(binary)))

\* Mutant: the expected runc entry has lost its option.
expectedRuncV1NoOption ==
  TreeFromMap(
    (<<"runtime_type">> :> StrV(<<"runc_runtime_type">>)) @@
    (<<"runtime_root">> :> StrV(<<"runc_runtime_root">>)) @@
    (<<"runtime_engine">> :> StrV(<<"runc_runtime_engine">>)) @@
    (<<"privileged_without_host_devices">> :> BoolV(TRUE)) @@
    (<<"options", "BinaryName">> :> StrV(<<"/runc-binary">>)))

\* The runc entry TestUpdateV1ConfigWithRuncPresent expects to find again.
expectedRuncV1 ==
  TreeFromMap(
    (<<"runtime_type">> :> StrV(<<"runc_runtime_type">>)) @@
    (<<"runtime_root">> :> StrV(<<"runc_runtime_root">>)) @@
    (<<"runtime_engine">> :> StrV(<<"runc_runtime_engine">>)) @@
    (<<"privileged_without_host_devices">> :> BoolV(TRUE)) @@
    (<<"options", "runc-option">> :> StrV(<<"value">>)) @@
    (<<"options", "BinaryName">> :> StrV(<<"/runc-binary">>)))

\* The runtime classes of the test cases, and the name each expected config
\* gives the entry with the base binary.
testRuntimeClasses == {"nvidia", "NAME", "nvidia-experimental"}

testBaseName(runtimeClass) == IF runtimeClass = "NAME" THEN "NAME" ELSE "nvidia"

\* expectedConfig of TestUpdateV1Config for a runtime class
expectedConfigV1(runtimeClass) ==
  LET dir == <<"/test/runtime/dir">>
      t0 == SetPath(EmptyTree, <<"version">>, IntV(1))
      t1 == SetTree(t0, RuntimesPath \o <<testBaseName(runtimeClass)>>,
                    expectedRuntimeV1(dir \o <<"/", "nvidia-container-runtime">>))
      t2 == SetTree(t1, RuntimesPath \o <<"nvidia-experimental">>,
                    expectedRuntimeV1(dir \o <<"/", "nvidia-container-runtime", ".experimental">>))
      t3 == SetTree(t2, RuntimesPath \o <<"nvidia-cdi">>,
                    expectedRuntimeV1(dir \o <<"/", "nvidia-container-runtime", ".cdi">>))
  IN SetTree(t3, RuntimesPath \o <<"nvidia-legacy">>,
             expectedRuntimeV1(dir \o <<"/", "nvidia-container-runtime", ".legacy">>))

\* expectedConfig of TestUpdateV1ConfigWithRuncPresent for a runtime class
expectedConfigV1WithRunc(runtimeClass) ==
  LET dir == <<"/test/runtime/dir">>
      t0 == SetPath(EmptyTree, <<"version">>, IntV(1))
      tr == SetTree(t0, RuntimesPath \o <<"runc">>, expectedRuncV1)
      t1 == SetTree(tr, RuntimesPath \o <<testBaseName(runtimeClass)>>,
                    expectedRuntimeV1WithRunc(dir \o <<"/", "nvidia-container-runtime">>))
      t2 == SetTree(t1, RuntimesPath \o <<"nvidia-experimental">>,
                    expectedRuntimeV1WithRunc(dir \o <<"/", "nvidia-container-runtime", ".experimental">>))
      t3 == SetTree(t2, RuntimesPath \o <<"nvidia-cdi">>,
                    expectedRuntimeV1WithRunc(dir \o <<"/", "nvidia-container-runtime", ".cdi">>))
  IN SetTree(t3, RuntimesPath \o <<"nvidia-legacy">>,
             expectedRuntimeV1WithRunc(dir \o <<"/", "nvidia-container-runtime", ".legacy">>))

\* Mutant: the expected default runtime carries the annotation selector.
defaultRuntimeV1WithAnnotations(binary) ==
  TreeFromMap(
    (<<"runtime_type">> :> StrV(runtimeType)) @@
    (<<"runtime_root">> :> StrV(<<>>)) @@
    (<<"runtime_engine">> :> StrV(<<>>)) @@
    (<<"privileged_without_host_devices">> :> BoolV(FALSE)) @@
    (<<"container_annotations">> :> ListV(<<"cdi.k8s.io/*">>)) @@
    (<<"options", "BinaryName">> :> StrV(binary)) @@
    (<<"options", "Runtime">> :> StrV(binary)))

\* The default_runtime table the tests expect and configure for a binary.
defaultRuntimeV1(binary) ==
  TreeFromMap(
    (<<"runtime_type">> :> StrV(runtimeType)) @@
    (<<"runtime_root">> :> StrV(<<>>)) @@
    (<<"runtime_engine">> :> StrV(<<>>)) @@
    (<<"privileged_without_host_devices">> :> BoolV(FALSE)) @@
    (<<"options", "BinaryName">> :> StrV(binary)) @@
    (<<"options", "Runtime">> :> StrV(binary)))

\* Mutant: the configured entries name no binary.
runtimeMapV1NoOptions(binary) ==
  TreeFromMap(
    (<<"runtime_type">> :> StrV(runtimeType)) @@
    (<<"runtime_root">> :> StrV(<<>>)) @@
    (<<"runtime_engine">> :> StrV(<<>>)) @@
    (<<"privileged_without_host_devices">> :> BoolV(FALSE)))

\* The runtime entry TestRevertV1Config configures for a binary.
runtimeMapV1(binary) ==
  TreeFromMap(
    (<<"runtime_type">> :> StrV(runtimeType)) @@
    (<<"runtime_root">> :> StrV(<<>>)) @@
    (<<"runtime_engine">> :> StrV(<<>>)) @@
    (<<"privileged_without_host_devices">> :> BoolV(FALSE)) @@
    (<<"options", "BinaryName">> :> StrV(binary)) @@
    (<<"options", "Runtime">> :> StrV(binary)))

\* Mutant: the cases expect an inlined default_runtime in either mode.
testDefaultRuntimeCasesInlined ==
  LET base == <<"/test/runtime/dir", "/", "nvidia-container-runtime">> IN
  { [legacyConfig |-> l, setAsDefault |-> TRUE, runtimeClass |-> "",
     expectedDefaultRuntimeName |-> "", expectedDefaultRuntimeBinary |-> base]
      : l \in BOOLEAN }

\* The cases of TestUpdateV1ConfigDefaultRuntime; "" and <<>> stand for nil.
testDefaultRuntimeCases ==
  LET base == <<"/test/runtime/dir", "/", "nvidia-container-runtime">> IN
  { [legacyConfig |-> FALSE, setAsDefault |-> FALSE, runtimeClass |-> "",
     expectedDefaultRuntimeName |-> "", expectedDefaultRuntimeBinary |-> <<>>],
    [legacyConfig |-> TRUE, setAsDefault |-> FALSE, runtimeClass |-> "",
     expectedDefaultRuntimeName |-> "", expectedDefaultRuntimeBinary |-> <<>>],
    [legacyConfig |-> TRUE, setAsDefault |-> TRUE, runtimeClass |-> "",
     expectedDefaultRuntimeName |-> "", expectedDefaultRuntimeBinary |-> base],
    [legacyConfig |-> TRUE, setAsDefault |-> TRUE, runtimeClass |-> "NAME",
     expectedDefaultRuntimeName |-> "", expectedDefaultRuntimeBinary |-> base],
    [legacyConfig |-> TRUE, setAsDefault |-> TRUE, runtimeClass |-> "nvidia-experimental",
     expectedDefaultRuntimeName |-> "",
     expectedDefaultRuntimeBinary |-> base \o <<".experimental">>],
    [legacyConfig |-> FALSE, setAsDefault |-> TRUE, runtimeClass |-> "",
     expectedDefaultRuntimeName |-> "nvidia", expectedDefaultRuntimeBinary |-> <<>>],
    [legacyConfig |-> FALSE, setAsDefault |-> TRUE, runtimeClass |-> "NAME",
     expectedDefaultRuntimeName |-> "NAME", expectedDefaultRuntimeBinary |-> <<>>],
    [legacyConfig |-> FALSE, setAsDefault |-> TRUE, runtimeClass |-> "nvidia-experimental",
     expectedDefaultRuntimeName |-> "nvidia-experimental",
     expectedDefaultRuntimeBinary |-> <<>>] }

\* The third config of TestRevertV1Config: the version and the four entries.
revertConfigManaged ==
  LET dir == <<"/test/runtime/dir">>
      t0 == SetPath(EmptyTree, <<"version">>, IntV(1))
      t1 == SetTree(t0, RuntimesPath \o <<"nvidia">>,
                    runtimeMapV1(dir \o <<"/", "nvidia-container-runtime">>))
      t2 == SetTree(t1, RuntimesPath \o <<"nvidia-experimental">>,
                    runtimeMapV1(dir \o <<"/", "nvidia-container-runtime", ".experimental">>))
      t3 == SetTree(t2, RuntimesPath \o <<"nvidia-cdi">>,
                    runtimeMapV1(dir \o <<"/", "nvidia-container-runtime", ".cdi">>))
  IN SetTree(t3, RuntimesPath \o <<"nvidia-legacy">>,
             runtimeMapV1(dir \o <<"/", "nvidia-container-runtime", ".legacy">>))

\* The fourth config of TestRevertV1Config: with both default pointers.
revertConfigManagedDefault ==
  LET t1 == SetTree(revertConfigManaged, ContainerdPath \o <<"default_runtime">>,
                    defaultRuntimeV1(<<"/test/runtime/dir", "/", "nvidia-container-runtime">>))
  IN SetPath(t1, ContainerdPath \o <<"default_runtime_name">>, StrV(<<"nvidia">>))

\* A config that was never managed: a section of its own, the runc entry,
\* and both default pointers at runc.
runcDefaultConfig ==
  LET t1 == SetPath(runcConfigMapV1(RuncBinary), <<"debug", "level">>, StrV(<<"info">>))
      t2 == SetPath(t1, <<"version">>, IntV(1))
      t3 == SetPath(t2, ContainerdPath \o <<"default_runtime_name">>, StrV(<<"runc">>))
      t4 == SetPath(t3, ContainerdPath \o <<"default_runtime", "runtime_type">>,
                    StrV(<<"runc_runtime_type">>))
  IN SetPath(t4, ContainerdPath \o <<"default_runtime", "options", "BinaryName">>,
             StrV(RuncBinary))

\* The trees the V1 policy is constructed over.
TestConfigs ==
  { EmptyTree,
    SetPath(EmptyTree, <<"version">>, IntV(1)),
    runcConfigMapV1(RuncBinary),
    revertConfigManaged,
    revertConfigManagedDefault,
    runcDefaultConfig }

\* Mutant: the second case expects the version key to stay.
testRevertCasesKeepVersion ==
  { [config |-> EmptyTree, expected |-> EmptyTree],
    [config |-> SetPath(EmptyTree, <<"version">>, IntV(1)),
     expected |-> SetPath(EmptyTree, <<"version">>, IntV(1))],
    [config |-> revertConfigManaged, expected |-> EmptyTree],
    [config |-> revertConfigManagedDefault, expected |-> EmptyTree] }

\* The cases of TestRevertV1Config: no case names an expected map, so every
\* expected tree is empty.
testRevertCases ==
  { [config |-> EmptyTree, expected |-> EmptyTree],
    [config |-> SetPath(EmptyTree, <<"version">>, IntV(1)), expected |-> EmptyTree],
    [config |-> revertConfigManaged, expected |-> EmptyTree],
    [config |-> revertConfigManagedDefault, expected |-> EmptyTree] }

\* ConfigV1{Tree, UseDefaultRuntimeName, RuntimeType}: the tests build the V1
\* policy directly over a tree made from a map.
NewConfigV1 ==
  /\ cpc = "unbuilt"
  /\ \E d \in TestConfigs, useDefaultRuntimeName \in BOOLEAN :
       /\ tree' = d
       /\ config' = [kind |-> "V1", RuntimeType |-> runtimeType,
                     UseDefaultRuntimeName |-> useDefaultRuntimeName]
  /\ cpc' = "built"
  /\ UNCHANGED <<file, builder, buildErr, parsed, loaded, before, lastOp, nOps>>
  /\ UNCHANGED cdiVars

\* ------------------------------------------------------------ UpdateConfig
nvidiaRuntimeName == "nvidia"
nvidiaRuntimeBinary == <<"nvidia-container-runtime">>

\* The managed runtimes besides the base one: name and binary suffix.
SuffixedRuntimes ==
  << [name |-> "nvidia-experimental", suffix |-> <<".experimental">>],
     [name |-> "nvidia-cdi",          suffix |-> <<".cdi">>],
     [name |-> "nvidia-legacy",       suffix |-> <<".legacy">>] >>

SuffixedNames == {SuffixedRuntimes[i].name : i \in 1..Len(SuffixedRuntimes)}

RuntimeClasses == {"", "nvidia", "NAME", "nvidia-experimental", "runc"}

Options ==
  [ runtimeClass : RuntimeClasses,
    setAsDefault : BOOLEAN,
    runtimeDir   : {testRuntimeDir} ]

\* filepath.Join(runtimeDir, binary)
JoinPath(dir, binary) == dir \o <<"/">> \o binary

\* The name of the runtime with the base binary.
BaseRuntimeName(o) ==
  IF o.runtimeClass = "" \/ o.runtimeClass \in SuffixedNames
    THEN nvidiaRuntimeName
    ELSE o.runtimeClass

\* The runtime that becomes the default when setAsDefault is requested.
DefaultRuntimeName(o) ==
  IF o.runtimeClass = "" THEN nvidiaRuntimeName ELSE o.runtimeClass

\* The runtimes UpdateConfig adds: name, binary path, whether it is the
\* default.
GetRuntimes(o) ==
  << [name |-> BaseRuntimeName(o),
      path |-> JoinPath(o.runtimeDir, nvidiaRuntimeBinary),
      setAsDefault |-> o.setAsDefault /\ DefaultRuntimeName(o) = BaseRuntimeName(o)] >>
  \o [i \in 1..Len(SuffixedRuntimes) |->
       [name |-> SuffixedRuntimes[i].name,
        path |-> JoinPath(o.runtimeDir, nvidiaRuntimeBinary \o SuffixedRuntimes[i].suffix),
        setAsDefault |-> o.setAsDefault /\ DefaultRuntimeName(o) = SuffixedRuntimes[i].name]]

CdiAnnotations == <<"cdi.k8s.io/*">>

\* The fields of a runtime entry that has no runc entry to inherit from.
DefaultEntryV1(c) ==
  LET t1 == SetPath(EmptyTree, <<"runtime_type">>, StrV(c.RuntimeType))
      t2 == SetPath(t1, <<"runtime_root">>, StrV(<<>>))
      t3 == SetPath(t2, <<"runtime_engine">>, StrV(<<>>))
  IN SetPath(t3, <<"privileged_without_host_devices">>, BoolV(FALSE))

\* ConfigV1.AddRuntime: the entry is written over what the name held, taken
\* from the runc entry when there is one, with the binary forced and the CDI
\* annotation selector set; the default is a name or an inlined entry.
AddRuntimeV1(tr, c, name, path, setAsDefault) ==
  LET entry == RuntimesPath \o <<name>>
      runc  == RuntimesPath \o <<"runc">>
      t1 == SetPath(tr, <<"version">>, IntV(1))
      t2 == IF Has(t1, runc) /\ t1[runc].t = "table"
              THEN SetTree(t1, entry, SubTree(t1, runc))
              ELSE SetTree(t1, entry, DefaultEntryV1(c))
      t3 == SetPath(t2, entry \o <<"container_annotations">>, ListV(CdiAnnotations))
      t4 == SetPath(t3, entry \o <<"options", "BinaryName">>, StrV(path))
      t5 == SetPath(t4, entry \o <<"options", "Runtime">>, StrV(path))
      dflt == ContainerdPath \o <<"default_runtime">>
      d1 == SetTree(t5, dflt, DefaultEntryV1(c))
      d2 == SetPath(d1, dflt \o <<"options", "BinaryName">>, StrV(path))
      d3 == SetPath(d2, dflt \o <<"options", "Runtime">>, StrV(path))
  IN IF ~setAsDefault THEN t5
     ELSE IF c.UseDefaultRuntimeName
       THEN SetPath(t5, ContainerdPath \o <<"default_runtime_name">>, StrV(<<name>>))
     ELSE d3

RECURSIVE AddRuntimesV1(_, _, _, _)
AddRuntimesV1(tr, c, runtimes, i) ==
  IF i > Len(runtimes) THEN tr
  ELSE AddRuntimesV1(AddRuntimeV1(tr, c, runtimes[i].name, runtimes[i].path, runtimes[i].setAsDefault),
                     c, runtimes, i + 1)

UpdateConfig(tr, c, o) == AddRuntimesV1(tr, c, GetRuntimes(o), 1)

Update ==
  /\ cpc = "built"
  /\ config.kind = "V1"
  /\ nOps < MaxOps
  /\ \E o \in Options :
       /\ tree' = UpdateConfig(tree, config, o)
       /\ lastOp' = [op |-> "Update", runtimeClass |-> o.runtimeClass,
                     setAsDefault |-> o.setAsDefault, runtimeDir |-> o.runtimeDir]
  /\ before' = tree
  /\ nOps' = nOps + 1
  /\ UNCHANGED <<cpc, file, builder, config, buildErr, parsed, loaded>>
  /\ UNCHANGED cdiVars

\* ------------------------------------------------- UpdateConfig under V2
\* ConfigV2.AddRuntime: the entry is written as under V1, the version is 2,
\* and the default is always the name of the runtime.
AddRuntimeV2(tr, c, name, path, setAsDefault) ==
  LET entry == RuntimesPath \o <<name>>
      runc  == RuntimesPath \o <<"runc">>
      t1 == SetPath(tr, <<"version">>, IntV(2))
      t2 == IF Has(t1, runc) /\ t1[runc].t = "table"
              THEN SetTree(t1, entry, SubTree(t1, runc))
              ELSE SetTree(t1, entry, DefaultEntryV1(c))
      t3 == SetPath(t2, entry \o <<"container_annotations">>, ListV(CdiAnnotations))
      t4 == SetPath(t3, entry \o <<"options", "BinaryName">>, StrV(path))
      t5 == SetPath(t4, entry \o <<"options", "Runtime">>, StrV(path))
  IN IF ~setAsDefault THEN t5
     ELSE SetPath(t5, ContainerdPath \o <<"default_runtime_name">>, StrV(<<name>>))

RECURSIVE AddRuntimesV2(_, _, _, _)
AddRuntimesV2(tr, c, runtimes, i) ==
  IF i > Len(runtimes) THEN tr
  ELSE AddRuntimesV2(AddRuntimeV2(tr, c, runtimes[i].name, runtimes[i].path, runtimes[i].setAsDefault),
                     c, runtimes, i + 1)

UpdateConfigV2(tr, c, o) == AddRuntimesV2(tr, c, GetRuntimes(o), 1)

\* UpdateConfig on the V2 policy build selected.
UpdateV2 ==
  /\ cpc = "built"
  /\ config.kind = "V2"
  /\ nOps < MaxOps
  /\ \E o \in Options :
       /\ tree' = UpdateConfigV2(tree, config, o)
       /\ lastOp' = [op |-> "UpdateV2", runtimeClass |-> o.runtimeClass,
                     setAsDefault |-> o.setAsDefault, runtimeDir |-> o.runtimeDir]
  /\ before' = tree
  /\ nOps' = nOps + 1
  /\ UNCHANGED <<cpc, file, builder, config, buildErr, parsed, loaded>>
  /\ UNCHANGED cdiVars

\* ------------------------------------------------------------ RevertConfig
\* GetPath(p).(string): the string at a path, empty when there is none
StringAt(tr, p) ==
  IF Has(tr, p) /\ tr[p].t = "str" THEN tr[p].s ELSE <<>>

\* The binary of a runtime entry: options.BinaryName, else options.Runtime
BinaryAt(tr, p) ==
  LET b == StringAt(tr, p \o <<"options", "BinaryName">>) IN
  IF b # <<>> THEN b ELSE StringAt(tr, p \o <<"options", "Runtime">>)

\* The tables on a path that hold nothing but tables on that path: removing
\* the empty tables from the deepest up removes exactly these.
Prunable(tr, p) ==
  {r \in Prefixes(p) \cap DOMAIN tr :
     /\ tr[r].t = "table"
     /\ \A q \in DOMAIN tr :
          HasPrefix(q, r) => (q \in Prefixes(p) /\ tr[q].t = "table")}

\* The tables on a path that are left without keys are removed.
PruneEmpty(tr, p) ==
  [q \in (DOMAIN tr) \ Prunable(tr, p) |-> tr[q]] @@ <<>>

\* Mutant: a version key left alone stays.
RemoveRuntimeV1KeepVersion(tr, name) ==
  LET entry == RuntimesPath \o <<name>>
      dflt  == ContainerdPath \o <<"default_runtime">>
      dname == ContainerdPath \o <<"default_runtime_name">>
      rp == BinaryAt(tr, entry)
      dp == BinaryAt(tr, dflt)
      t1 == IF rp # <<>> /\ dp # <<>> /\ rp = dp THEN DeletePath(tr, dflt) ELSE tr
      t2 == DeletePath(t1, entry)
      t3 == IF StringAt(t2, dname) = <<name>> THEN DeletePath(t2, dname) ELSE t2
  IN PruneEmpty(t3, entry)

\* ConfigV1.RemoveRuntime: the entry goes, with default_runtime when it runs
\* the entry's binary and default_runtime_name when it is the entry's name;
\* the tables left empty and a version key left alone go too.
RemoveRuntimeV1(tr, name) ==
  LET entry == RuntimesPath \o <<name>>
      dflt  == ContainerdPath \o <<"default_runtime">>
      dname == ContainerdPath \o <<"default_runtime_name">>
      rp == BinaryAt(tr, entry)
      dp == BinaryAt(tr, dflt)
      t1 == IF rp # <<>> /\ dp # <<>> /\ rp = dp THEN DeletePath(tr, dflt) ELSE tr
      t2 == DeletePath(t1, entry)
      t3 == IF StringAt(t2, dname) = <<name>> THEN DeletePath(t2, dname) ELSE t2
      t4 == PruneEmpty(t3, entry)
  IN IF Keys(t4) = {"version"} THEN DeletePath(t4, <<"version">>) ELSE t4

RECURSIVE RemoveRuntimesV1(_, _, _)
RemoveRuntimesV1(tr, runtimes, i) ==
  IF i > Len(runtimes) THEN tr
  ELSE RemoveRuntimesV1(RemoveRuntimeV1(tr, runtimes[i].name), runtimes, i + 1)

\* RevertConfig: every runtime the options name is removed.
RevertConfig(tr, c, o) == RemoveRuntimesV1(tr, GetRuntimes(o), 1)

Revert ==
  /\ cpc = "built"
  /\ config.kind = "V1"
  /\ nOps < MaxOps
  /\ \E o \in Options :
       /\ tree' = RevertConfig(tree, config, o)
       /\ lastOp' = [op |-> "Revert", runtimeClass |-> o.runtimeClass,
                     setAsDefault |-> o.setAsDefault, runtimeDir |-> o.runtimeDir]
  /\ before' = tree
  /\ nOps' = nOps + 1
  /\ UNCHANGED <<cpc, file, builder, config, buildErr, parsed, loaded>>
  /\ UNCHANGED cdiVars

\* ----------------------------------------------------------- specification
vars == <<cdiVars, cfgVars>>

Init ==
  /\ pc = "start"
  /\ ociSpec = NoSpec
  /\ cfg = NoCfg
  /\ resolved = NoResolved
  /\ modifier = NilModifier
  /\ newErr = Nil
  /\ trace = <<>>
  /\ modifyErr = Nil
  /\ cpc = "unbuilt"
  /\ file = [kind |-> "missing", doc |-> EmptyTree]
  /\ builder = [path |-> "", runtimeType |-> <<>>, useLegacyConfig |-> FALSE]
  /\ tree = EmptyTree
  /\ config = NoConfig
  /\ buildErr = Nil
  /\ parsed = NoParse
  /\ loaded = NoLoad
  /\ before = EmptyTree
  /\ lastOp = NoOp
  /\ nOps = 0

\* The CDI modifier: construction, then Modify calls.
Next == NewCDIModifier \/ Modify

Spec == Init /\ [][Next]_vars

\* The containerd configuration: the policy is built, then updated.
NextConfig == Build \/ NewConfigV1 \/ Update \/ UpdateV2

SpecConfig == Init /\ [][NextConfig]_vars

\* The V1 policy as the tests construct it, updated and reverted.
NextRevert == NewConfigV1 \/ Update \/ Revert

SpecRevert == Init /\ [][NextRevert]_vars

\* ================================================================== claims
\* What an entry of the visible devices list denotes: itself when it is a
\* qualified name, otherwise the default kind, "=", and the entry.
Qualify(name, kind) ==
  IF IsQualifiedName(name) THEN name ELSE kind \o <<"=">> \o name

QualifyAll(list, kind) == [i \in 1..Len(list) |-> Qualify(list[i], kind)]

\* The elements of s, each kept at its first occurrence only.
RECURSIVE FirstOccurrences(_)
FirstOccurrences(s) ==
  IF s = <<>> THEN <<>>
  ELSE LET front == FirstOccurrences(SubSeq(s, 1, Len(s) - 1))
           last  == s[Len(s)]
       IN IF \E i \in 1..(Len(s) - 1) : s[i] = last THEN front ELSE Append(front, last)

RECURSIVE CdiDevicesOf(_)
CdiDevicesOf(annotations) ==
  IF annotations = <<>> THEN <<>>
  ELSE LET rest == CdiDevicesOf(Tail(annotations)) IN
       IF Head(annotations).cdi THEN Head(annotations).devices \o rest ELSE rest

AnnotationsValid(annotations) ==
  \A i \in 1..Len(annotations) :
    annotations[i].cdi =>
      \A k \in 1..Len(annotations[i].devices) : IsQualifiedName(annotations[i].devices[k])

\* NewCDIModifier has returned and getDevicesFromSpec went down the
\* environment path (the spec loaded, the annotations named no device, the
\* image was built).
OnEnvPath ==
  /\ pc = "constructed"
  /\ ~ociSpec.loadErr
  /\ AnnotationsValid(ociSpec.annotations)
  /\ CdiDevicesOf(ociSpec.annotations) = <<>>
  /\ ~ociSpec.imageErr

Honored == cfg.AcceptEnvvarUnprivileged \/ ociSpec.privileged

\* C1: on the environment path, the list getDevicesFromSpec returns holds
\* each distinct qualified identifier of the visible devices list exactly
\* once, in the order of first occurrence.
C1_EachDeviceOnce ==
  (OnEnvPath /\ Honored) =>
    resolved.devices = FirstOccurrences(QualifyAll(ociSpec.envDevices, cfg.DefaultKind))

\* C2: a non-empty environment-derived list is returned unchanged exactly
\* when AcceptEnvvarUnprivileged is set or the container is privileged;
\* otherwise the result is the empty list, and in both cases no error.
C2_PrivilegePolicy ==
  (OnEnvPath /\ Len(ociSpec.envDevices) > 0) =>
    /\ resolved.err = Nil
    /\ Honored => /\ Len(resolved.devices) > 0
                  /\ FirstOccurrences(resolved.devices) =
                       FirstOccurrences(QualifyAll(ociSpec.envDevices, cfg.DefaultKind))
    /\ ~Honored => resolved.devices = <<>>

C2_Witness ==
  /\ OnEnvPath
  /\ Len(ociSpec.envDevices) > 0
  /\ ~cfg.AcceptEnvvarUnprivileged
  /\ ~ociSpec.privileged
  /\ resolved.devices = <<>>
  /\ resolved.err = Nil

\* C3: when the annotations yield at least one qualified CDI device, the
\* result is exactly the annotation devices, in order, whatever the visible
\* devices variable, AcceptEnvvarUnprivileged and the privileged flag are,
\* and the variable is not read.
C3_AnnotationsWin ==
  ( /\ pc = "constructed"
    /\ ~ociSpec.loadErr
    /\ AnnotationsValid(ociSpec.annotations)
    /\ CdiDevicesOf(ociSpec.annotations) # <<>> ) =>
    /\ resolved.devices = CdiDevicesOf(ociSpec.annotations)
    /\ resolved.err = Nil
    /\ ~resolved.envRead

C3_Witness ==
  /\ pc = "constructed"
  /\ CdiDevicesOf(ociSpec.annotations) = <<QualW, Qual0>>
  /\ Len(ociSpec.envDevices) > 0
  /\ ~cfg.AcceptEnvvarUnprivileged
  /\ ~ociSpec.privileged
  /\ resolved.devices = <<QualW, Qual0>>

\* C4, as claimed: on the environment path every entry that is not qualified
\* resolves to DefaultKind=name, every qualified entry to itself, and so
\* every element of the resolved list is a qualified name.
C4_AllQualified ==
  (OnEnvPath /\ Honored) =>
    /\ \A j \in 1..Len(ociSpec.envDevices) :
         \E i \in 1..Len(resolved.devices) :
           resolved.devices[i] = Qualify(ociSpec.envDevices[j], cfg.DefaultKind)
    /\ \A i \in 1..Len(resolved.devices) : IsQualifiedName(resolved.devices[i])

ValidKind(kind) ==
  LET q == ParseQualifier(kind) IN
  /\ q[1] # <<>> /\ AllIn(q[1], AlphaNumeric)
  /\ q[2] # <<>> /\ AllIn(q[2], AlphaNumeric)

ValidDeviceName(name) == name # <<>> /\ AllIn(name, AlphaNumeric)

\* C4, amended: on the environment path every entry that is not qualified
\* resolves to DefaultKind=name and every qualified entry to itself, and the
\* resolved list holds nothing else; its elements are all qualified names
\* when DefaultKind is a vendor/class kind and every entry that is not
\* qualified is a legal device name.
C4_ResolvedEntries ==
  (OnEnvPath /\ Honored) =>
    /\ \A j \in 1..Len(ociSpec.envDevices) :
         \E i \in 1..Len(resolved.devices) :
           resolved.devices[i] = Qualify(ociSpec.envDevices[j], cfg.DefaultKind)
    /\ \A i \in 1..Len(resolved.devices) :
         \E j \in 1..Len(ociSpec.envDevices) :
           resolved.devices[i] = Qualify(ociSpec.envDevices[j], cfg.DefaultKind)
    /\ ( /\ ValidKind(cfg.DefaultKind)
         /\ \A j \in 1..Len(ociSpec.envDevices) :
              \/ IsQualifiedName(ociSpec.envDevices[j])
              \/ ValidDeviceName(ociSpec.envDevices[j]) )
       => \A i \in 1..Len(resolved.devices) : IsQualifiedName(resolved.devices[i])

C4_Witness ==
  /\ OnEnvPath
  /\ ociSpec.privileged
  /\ cfg.DefaultKind = GpuKind
  /\ ociSpec.envDevices = <<Bare0>>
  /\ resolved.devices = <<Qual0>>

\* C5: NewCDIModifier returns (nil, error) when loading the spec, parsing the
\* annotations or building the image fails, (nil, nil) when the resolved
\* list is empty, and otherwise a modifier holding the resolved, non-empty
\* list and no error; never a modifier together with an error.
C5_ThreeOutcomes ==
  pc = "constructed" =>
    LET failed == \/ ociSpec.loadErr
                  \/ ~AnnotationsValid(ociSpec.annotations)
                  \/ (CdiDevicesOf(ociSpec.annotations) = <<>> /\ ociSpec.imageErr)
    IN /\ failed => (modifier.isNil /\ newErr # Nil)
       /\ (~failed /\ resolved.devices = <<>>) => (modifier.isNil /\ newErr = Nil)
       /\ (~failed /\ resolved.devices # <<>>) =>
            /\ ~modifier.isNil
            /\ newErr = Nil
            /\ modifier.devices = resolved.devices
            /\ Len(modifier.devices) > 0
       /\ ~(~modifier.isNil /\ newErr # Nil)

\* The list was emptied by the privilege policy: no modifier and no error.
C5_Witness ==
  /\ OnEnvPath
  /\ Len(ociSpec.envDevices) > 0
  /\ ~Honored
  /\ modifier.isNil
  /\ newErr = Nil

CallsOf(op) == {i \in 1..Len(trace) : trace[i].op = op}

\* C6: in a Modify call Refresh happens exactly once and before
\* InjectDevices; also after a failed Refresh, InjectDevices is called with
\* the configured device list, and it alone decides Modify's result.
C6_RefreshThenInject ==
  trace # <<>> =>
    /\ Cardinality(CallsOf("Refresh")) = 1
    /\ CallsOf("InjectDevices") # {}
    /\ \A r \in CallsOf("Refresh"), j \in CallsOf("InjectDevices") :
         /\ r < j
         /\ trace[j].devices = modifier.devices
         /\ (modifyErr = Nil) = ~trace[j].failed

C6_Witness ==
  /\ Len(trace) = 3
  /\ trace[2].op = "Refresh"
  /\ trace[2].failed
  /\ trace[3].op = "InjectDevices"
  /\ ~trace[3].failed
  /\ modifyErr = Nil

\* C7: Modify returns an error exactly when InjectDevices reports one,
\* whatever Refresh returned, and InjectDevices is called once only.
C7_ErrorIffInjectFails ==
  trace # <<>> =>
    /\ Cardinality(CallsOf("InjectDevices")) = 1
    /\ (modifyErr # Nil) = (\E j \in CallsOf("InjectDevices") : trace[j].failed)

C7_Witness ==
  /\ trace # <<>>
  /\ \E j \in CallsOf("InjectDevices") : trace[j].failed
  /\ \E r \in CallsOf("Refresh") : ~trace[r].failed
  /\ modifyErr # Nil

\* The document build loaded: the empty one when the file is missing.
LoadedDoc == IF file.kind = "missing" THEN EmptyTree ELSE file.doc

\* C8: parseVersion returns, for a document without a version key, 2 (1 in
\* legacy mode) when it has no top-level key and 1 when it has one; for an
\* integer version that integer, also when it is neither 1 nor 2; for a
\* version of another type an error.
C8_ParseVersion ==
  parsed.called =>
    LET versionPath == <<"version">>
        hasVersion == versionPath \in DOMAIN LoadedDoc
        topKeys == {q \in DOMAIN LoadedDoc : Len(q) = 1}
    IN /\ (~hasVersion /\ topKeys = {}) =>
            (parsed.err = Nil /\ parsed.version = IF builder.useLegacyConfig THEN 1 ELSE 2)
       /\ (~hasVersion /\ topKeys # {}) =>
            (parsed.err = Nil /\ parsed.version = 1)
       /\ (hasVersion /\ LoadedDoc[versionPath].t = "int") =>
            (parsed.err = Nil /\ parsed.version = LoadedDoc[versionPath].i)
       /\ (hasVersion /\ LoadedDoc[versionPath].t # "int") =>
            parsed.err # Nil

\* A document with content and no version key, read in non-legacy mode.
C8_Witness ==
  /\ parsed.called
  /\ ~builder.useLegacyConfig
  /\ <<"version">> \notin DOMAIN LoadedDoc
  /\ DOMAIN LoadedDoc # {}
  /\ parsed.version = 1
  /\ parsed.err = Nil

\* The names of the runtime entries of a tree.
RuntimeNames(tr) ==
  {q[5] : q \in {x \in DOMAIN tr : Len(x) >= 5 /\ SubSeq(x, 1, 4) = <<"plugins", "cri", "containerd", "runtimes">>}}

EntryPath(name) == <<"plugins", "cri", "containerd", "runtimes", name>>

SuffixOf(name) ==
  IF name = "nvidia-experimental" THEN <<".experimental">>
  ELSE IF name = "nvidia-cdi" THEN <<".cdi">>
  ELSE IF name = "nvidia-legacy" THEN <<".legacy">>
  ELSE <<>>

\* The binary the tool gives a managed runtime: runtimeDir/<binary>.
ManagedBinary(name) ==
  lastOp.runtimeDir \o <<"/", "nvidia-container-runtime">> \o SuffixOf(name)

\* The names Update manages for a runtime class.
ManagedNames(runtimeClass) ==
  {"nvidia-experimental", "nvidia-cdi", "nvidia-legacy"}
  \cup {IF runtimeClass \in {"", "nvidia-experimental", "nvidia-cdi", "nvidia-legacy"}
          THEN "nvidia" ELSE runtimeClass}

UpdatedEmptyTree == lastOp.op = "Update" /\ before = EmptyTree

\* C9: Update under the V1 policy on an empty tree sets version = 1 and
\* creates exactly the four managed runtime entries, the base one named
\* after runtimeClass (or nvidia); in each, options.BinaryName and
\* options.Runtime are runtimeDir/<binary>, runtime_type is the configured
\* type, runtime_root and runtime_engine are empty,
\* privileged_without_host_devices is false and container_annotations is
\* ["cdi.k8s.io/*"].  In the cases of TestUpdateV1Config the tree is the
\* expected config.
C9_UpdateEmptyTree ==
  UpdatedEmptyTree =>
    /\ <<"version">> \in DOMAIN tree
    /\ tree[<<"version">>] = IntV(1)
    /\ RuntimeNames(tree) = ManagedNames(lastOp.runtimeClass)
    /\ Cardinality(RuntimeNames(tree)) = 4
    /\ \A name \in RuntimeNames(tree) :
         LET e == SubTree(tree, EntryPath(name)) IN
         /\ DOMAIN e = { <<"runtime_type">>, <<"runtime_root">>, <<"runtime_engine">>,
                         <<"privileged_without_host_devices">>, <<"container_annotations">>,
                         <<"options">>, <<"options", "BinaryName">>, <<"options", "Runtime">> }
         /\ e[<<"options", "BinaryName">>] = StrV(ManagedBinary(name))
         /\ e[<<"options", "Runtime">>] = StrV(ManagedBinary(name))
         /\ e[<<"runtime_type">>] = StrV(config.RuntimeType)
         /\ e[<<"runtime_root">>] = StrV(<<>>)
         /\ e[<<"runtime_engine">>] = StrV(<<>>)
         /\ e[<<"privileged_without_host_devices">>] = BoolV(FALSE)
         /\ e[<<"container_annotations">>] = ListV(<<"cdi.k8s.io/*">>)
    /\ ( /\ config.RuntimeType = runtimeType
         /\ ~lastOp.setAsDefault
         /\ lastOp.runtimeClass \in testRuntimeClasses )
       => tree = expectedConfigV1(lastOp.runtimeClass)

\* The base entry is named nvidia when runtimeClass is a suffixed name.
C9_Witness ==
  /\ UpdatedEmptyTree
  /\ lastOp.runtimeClass = "nvidia-experimental"
  /\ RuntimeNames(tree) = {"nvidia", "nvidia-experimental", "nvidia-cdi", "nvidia-legacy"}
  /\ tree[EntryPath("nvidia") \o <<"options", "BinaryName">>]
       = StrV(<<"/test/runtime/dir", "/", "nvidia-container-runtime">>)

RuncPath == <<"plugins", "cri", "containerd", "runtimes", "runc">>

UpdatedRuncTree ==
  /\ lastOp.op = "Update"
  /\ RuncPath \in DOMAIN before
  /\ before[RuncPath].t = "table"

\* What Update makes of the managed entries of a tree that holds runc.
ManagedInheritRunc ==
  \A name \in ManagedNames(lastOp.runtimeClass) :
    LET e == SubTree(tree, EntryPath(name))
        r == SubTree(before, RuncPath)
    IN /\ \A f \in { <<"runtime_type">>, <<"runtime_root">>, <<"runtime_engine">>,
                     <<"privileged_without_host_devices">> } :
            f \in DOMAIN r => (f \in DOMAIN e /\ e[f] = r[f])
       /\ \A q \in DOMAIN r :
            (q[1] = "options" /\ q \notin {<<"options", "BinaryName">>, <<"options", "Runtime">>})
              => (q \in DOMAIN e /\ e[q] = r[q])
       /\ <<"options", "BinaryName">> \in DOMAIN e
       /\ <<"options", "Runtime">> \in DOMAIN e
       /\ e[<<"options", "BinaryName">>] = StrV(ManagedBinary(name))
       /\ e[<<"options", "Runtime">>] = StrV(ManagedBinary(name))

\* C10, as claimed: Update under the V1 policy on a tree that holds a runc
\* entry leaves the runc entry as it was, and every managed entry takes
\* runc's fields and options, with BinaryName and Runtime forced to the
\* managed binary.
C10_RuncUntouched ==
  UpdatedRuncTree =>
    /\ SubTree(tree, RuncPath) = SubTree(before, RuncPath)
    /\ ManagedInheritRunc

\* C10, amended: the same for every runtimeClass other than "runc"; with
\* runtimeClass "runc" the runc entry is the managed base entry.  In the
\* cases of TestUpdateV1ConfigWithRuncPresent the tree is the expected
\* config.
C10_RuncUntouchedUnlessManaged ==
  UpdatedRuncTree =>
    /\ lastOp.runtimeClass # "runc" => SubTree(tree, RuncPath) = SubTree(before, RuncPath)
    /\ ManagedInheritRunc
    /\ ( /\ before = runcConfigMapV1(RuncBinary)
         /\ ~lastOp.setAsDefault
         /\ lastOp.runtimeClass \in testRuntimeClasses )
       => tree = expectedConfigV1WithRunc(lastOp.runtimeClass)

C10_Witness ==
  /\ UpdatedRuncTree
  /\ lastOp.runtimeClass = "NAME"
  /\ SubTree(tree, RuncPath) = SubTree(before, RuncPath)
  /\ tree[RuncPath \o <<"options", "BinaryName">>] = StrV(<<"/runc-binary">>)
  /\ tree[EntryPath("NAME") \o <<"options", "runc-option">>] = StrV(<<"value">>)
  /\ tree[EntryPath("NAME") \o <<"options", "BinaryName">>]
       = StrV(<<"/test/runtime/dir", "/", "nvidia-container-runtime">>)

DefaultRuntimePath == <<"plugins", "cri", "containerd", "default_runtime">>

DefaultRuntimeNamePath == <<"plugins", "cri", "containerd", "default_runtime_name">>

\* The runtime the options select as the default.
SelectedName == IF lastOp.runtimeClass = "" THEN "nvidia" ELSE lastOp.runtimeClass

\* C11: after Update under the V1 policy on an empty tree, without
\* setAsDefault neither default_runtime nor default_runtime_name is there;
\* with setAsDefault and UseDefaultRuntimeName, default_runtime_name is the
\* runtimeClass (nvidia when it is empty) and default_runtime is absent; with
\* setAsDefault in legacy mode, default_runtime_name is absent and
\* default_runtime is an inlined entry whose options.BinaryName and
\* options.Runtime are the binary of the selected class.  The two are never
\* there together.  In the cases of TestUpdateV1ConfigDefaultRuntime the
\* name and the default_runtime table are the expected ones.
C11_DefaultRuntimeV1 ==
  UpdatedEmptyTree =>
    LET hasName == Has(tree, DefaultRuntimeNamePath)
        hasDflt == Has(tree, DefaultRuntimePath)
        d == SubTree(tree, DefaultRuntimePath)
    IN /\ ~(hasName /\ hasDflt)
       /\ ~lastOp.setAsDefault => (~hasName /\ ~hasDflt)
       /\ (lastOp.setAsDefault /\ config.UseDefaultRuntimeName) =>
            /\ hasName
            /\ tree[DefaultRuntimeNamePath] = StrV(<<SelectedName>>)
            /\ ~hasDflt
       /\ (lastOp.setAsDefault /\ ~config.UseDefaultRuntimeName) =>
            /\ ~hasName
            /\ hasDflt
            /\ tree[DefaultRuntimePath].t = "table"
            /\ <<"options", "BinaryName">> \in DOMAIN d
            /\ <<"options", "Runtime">> \in DOMAIN d
            /\ d[<<"options", "BinaryName">>] = StrV(ManagedBinary(SelectedName))
            /\ d[<<"options", "Runtime">>] = StrV(ManagedBinary(SelectedName))
       /\ \A tc \in testDefaultRuntimeCases :
            ( /\ config.RuntimeType = runtimeType
              /\ config.UseDefaultRuntimeName = ~tc.legacyConfig
              /\ lastOp.setAsDefault = tc.setAsDefault
              /\ lastOp.runtimeClass = tc.runtimeClass )
            => /\ IF tc.expectedDefaultRuntimeName = ""
                    THEN ~hasName
                    ELSE hasName /\ tree[DefaultRuntimeNamePath]
                                      = StrV(<<tc.expectedDefaultRuntimeName>>)
               /\ IF tc.expectedDefaultRuntimeBinary = <<>>
                    THEN ~hasDflt
                    ELSE hasDflt /\ d = defaultRuntimeV1(tc.expectedDefaultRuntimeBinary)

\* Legacy mode with a suffixed class: the inlined default runs its binary.
C11_Witness ==
  /\ UpdatedEmptyTree
  /\ lastOp.setAsDefault
  /\ ~config.UseDefaultRuntimeName
  /\ lastOp.runtimeClass = "nvidia-experimental"
  /\ DefaultRuntimeNamePath \notin DOMAIN tree
  /\ DefaultRuntimePath \o <<"options", "BinaryName">> \in DOMAIN tree
  /\ tree[DefaultRuntimePath \o <<"options", "BinaryName">>]
       = StrV(<<"/test/runtime/dir", "/", "nvidia-container-runtime", ".experimental">>)

UpdatedAsDefault == lastOp.op \in {"Update", "UpdateV2"} /\ lastOp.setAsDefault

\* Whether a path holds the same in both trees, with what is below it.
SameAt(t1, t2, p) ==
  /\ Has(t1, p) = Has(t2, p)
  /\ Has(t1, p) => (t1[p] = t2[p] /\ SubTree(t1, p) = SubTree(t2, p))

NameWritten ==
  /\ Has(tree, DefaultRuntimeNamePath)
  /\ tree[DefaultRuntimeNamePath] = StrV(<<SelectedName>>)

\* C12, as claimed: with setAsDefault, the V2 policy writes only
\* default_runtime_name, the selected name; the V1 policy writes only
\* default_runtime, a full copy of the entry written under
\* runtimes.<selected>, and never default_runtime_name.
C12_FullCopy ==
  UpdatedAsDefault =>
    /\ lastOp.op = "UpdateV2" =>
         (NameWritten /\ SameAt(tree, before, DefaultRuntimePath))
    /\ lastOp.op = "Update" =>
         /\ SameAt(tree, before, DefaultRuntimeNamePath)
         /\ Has(tree, DefaultRuntimePath)
         /\ SubTree(tree, DefaultRuntimePath) = SubTree(tree, EntryPath(SelectedName))

\* C12, amended: with setAsDefault, the V2 policy and the V1 policy with
\* UseDefaultRuntimeName write only default_runtime_name, the selected name;
\* the V1 policy in legacy mode writes only default_runtime, with
\* options.BinaryName and options.Runtime the binary of the selected runtime
\* and no name field; where there was no default_runtime it holds the
\* configured runtime type, empty runtime_root and runtime_engine, false
\* privileged_without_host_devices and the two options, and no
\* container_annotations.  The cases of TestUpdateV1ConfigDefaultRuntime
\* expect a name exactly when the policy writes one.
C12_DefaultPointer ==
  UpdatedAsDefault =>
    LET d == SubTree(tree, DefaultRuntimePath)
        byName == lastOp.op = "UpdateV2" \/ config.UseDefaultRuntimeName
    IN /\ byName => (NameWritten /\ SameAt(tree, before, DefaultRuntimePath))
       /\ ~byName =>
            /\ SameAt(tree, before, DefaultRuntimeNamePath)
            /\ Has(tree, DefaultRuntimePath)
            /\ tree[DefaultRuntimePath].t = "table"
            /\ <<"options", "BinaryName">> \in DOMAIN d
            /\ <<"options", "Runtime">> \in DOMAIN d
            /\ d[<<"options", "BinaryName">>] = StrV(ManagedBinary(SelectedName))
            /\ d[<<"options", "Runtime">>] = StrV(ManagedBinary(SelectedName))
            /\ <<"name">> \notin DOMAIN d
            /\ ~Has(before, DefaultRuntimePath) =>
                 /\ DOMAIN d = { <<"runtime_type">>, <<"runtime_root">>, <<"runtime_engine">>,
                                 <<"privileged_without_host_devices">>, <<"options">>,
                                 <<"options", "BinaryName">>, <<"options", "Runtime">> }
                 /\ d[<<"runtime_type">>] = StrV(config.RuntimeType)
                 /\ d[<<"runtime_root">>] = StrV(<<>>)
                 /\ d[<<"runtime_engine">>] = StrV(<<>>)
                 /\ d[<<"privileged_without_host_devices">>] = BoolV(FALSE)
                 /\ d # SubTree(tree, EntryPath(SelectedName))
       /\ \A tc \in testDefaultRuntimeCases :
            ( /\ lastOp.op = "Update"
              /\ tc.setAsDefault
              /\ config.UseDefaultRuntimeName = ~tc.legacyConfig
              /\ lastOp.runtimeClass = tc.runtimeClass )
            => (tc.expectedDefaultRuntimeName # "") = byName

\* The V2 policy names the default and inlines nothing.
C12_Witness ==
  /\ lastOp.op = "UpdateV2"
  /\ lastOp.setAsDefault
  /\ lastOp.runtimeClass = "nvidia"
  /\ config.kind = "V2"
  /\ DefaultRuntimeNamePath \in DOMAIN tree
  /\ tree[DefaultRuntimeNamePath] = StrV(<<"nvidia">>)
  /\ DefaultRuntimePath \notin DOMAIN tree

\* The options of the last operation.
LastOptions ==
  [runtimeClass |-> lastOp.runtimeClass, setAsDefault |-> lastOp.setAsDefault,
   runtimeDir |-> lastOp.runtimeDir]

\* Revert has run on what Update with the same options made of an empty tree.
RevertedUpdatedEmptyTree ==
  /\ lastOp.op = "Revert"
  /\ before = UpdateConfig(EmptyTree, config, LastOptions)

\* C13: Update followed by Revert with the same options on an empty tree
\* gives the empty tree again, for every runtimeClass, with and without
\* setAsDefault, in legacy mode or not: no managed entry, no default pointer,
\* no empty table and no version key is left.
C13_UpdateRevertEmpty ==
  RevertedUpdatedEmptyTree =>
    /\ tree = EmptyTree
    /\ DOMAIN tree = {}

\* Legacy mode with setAsDefault: the inlined default_runtime goes too.
C13_Witness ==
  /\ RevertedUpdatedEmptyTree
  /\ lastOp.setAsDefault
  /\ ~config.UseDefaultRuntimeName
  /\ lastOp.runtimeClass = "NAME"
  /\ DefaultRuntimePath \in DOMAIN before
  /\ EntryPath("NAME") \in DOMAIN before
  /\ <<"version">> \in DOMAIN before
  /\ tree = EmptyTree

\* Whether default_runtime runs the binary of one of the named entries.
DefaultRuntimeAmong(tr, names) ==
  /\ BinaryAt(tr, DefaultRuntimePath) # <<>>
  /\ \E n \in names : BinaryAt(tr, DefaultRuntimePath) = BinaryAt(tr, EntryPath(n))

\* A tree with the version key, the managed entries of a runtime class and
\* nothing else but default pointers at one of them.
ManagedOnly(tr, runtimeClass) ==
  /\ <<"version">> \in DOMAIN tr
  /\ Keys(tr) = {"version", "plugins"}
  /\ RuntimeNames(tr) = ManagedNames(runtimeClass)
  /\ \A q \in DOMAIN tr :
       q[1] = "plugins" =>
         \/ q \in Prefixes(RuntimesPath)
         \/ HasPrefix(q, RuntimesPath)
         \/ HasPrefix(q, DefaultRuntimePath)
         \/ q = DefaultRuntimeNamePath
  /\ Has(tr, DefaultRuntimeNamePath) =>
       \E n \in ManagedNames(runtimeClass) : tr[DefaultRuntimeNamePath] = StrV(<<n>>)
  /\ Has(tr, DefaultRuntimePath) => DefaultRuntimeAmong(tr, ManagedNames(runtimeClass))

\* C14: Revert under the V1 policy on a tree that holds only the version key,
\* the four managed entries and possibly default_runtime and
\* default_runtime_name pointing at a managed runtime leaves the empty tree:
\* entries and pointers deleted, the tables plugins, cri, containerd and
\* runtimes pruned, the version key removed.  The third and fourth config of
\* TestRevertV1Config become empty.
C14_RevertManaged ==
  lastOp.op = "Revert" =>
    /\ ManagedOnly(before, lastOp.runtimeClass) => tree = EmptyTree
    /\ ( /\ before \in {revertConfigManaged, revertConfigManagedDefault}
         /\ lastOp.runtimeClass = "nvidia" )
       => tree = EmptyTree

\* The fourth config of TestRevertV1Config, with both pointers.
C14_Witness ==
  /\ lastOp.op = "Revert"
  /\ lastOp.runtimeClass = "nvidia"
  /\ before = revertConfigManagedDefault
  /\ ManagedOnly(before, "nvidia")
  /\ DefaultRuntimePath \in DOMAIN before
  /\ DefaultRuntimeNamePath \in DOMAIN before
  /\ tree = EmptyTree

\* A tree without any entry the options manage.
NeverManaged(tr, runtimeClass) ==
  RuntimeNames(tr) \cap ManagedNames(runtimeClass) = {}

\* Reverting the tree once more changes nothing.
RevertAgainSame == RevertConfig(tree, config, LastOptions) = tree

\* C15, as claimed: Revert on a tree that was already reverted or that never
\* held a managed entry, the empty tree and a tree with only a version key
\* included, leaves the tree exactly as it was, and reverting twice is
\* reverting once.
C15_RevertNoOp ==
  lastOp.op = "Revert" =>
    /\ NeverManaged(before, lastOp.runtimeClass) => tree = before
    /\ RevertAgainSame

\* C15, amended: reverting twice is reverting once, and Revert on a tree
\* that never held a managed entry leaves it as it was, except that a tree
\* holding only a version key becomes empty; a tree Revert has produced is
\* left exactly as it was.  The cases of TestRevertV1Config end in their
\* expected trees.
C15_RevertIdempotent ==
  lastOp.op = "Revert" =>
    /\ RevertAgainSame
    /\ NeverManaged(before, lastOp.runtimeClass) =>
         tree = IF Keys(before) = {"version"} THEN EmptyTree ELSE before
    /\ before = RevertConfig(before, config, LastOptions) => tree = before
    /\ \A tc \in testRevertCases :
         (before = tc.config /\ lastOp.runtimeClass = "nvidia") => tree = tc.expected

\* A second Revert on a tree that still holds what the first one left.
C15_Witness ==
  /\ lastOp.op = "Revert"
  /\ nOps = 2
  /\ lastOp.runtimeClass = "nvidia"
  /\ before = RevertConfig(before, config, LastOptions)
  /\ RuncPath \in DOMAIN before
  /\ NeverManaged(before, "nvidia")
  /\ tree = before

\* Whether default_runtime_name names one of the runtimes.
DefaultNameAmong(tr, names) ==
  /\ Has(tr, DefaultRuntimeNamePath)
  /\ \E n \in names : tr[DefaultRuntimeNamePath] = StrV(<<n>>)

\* The sections outside version and plugins are the same in both trees.
SameSections(t1, t2) ==
  /\ \A q \in DOMAIN t1 : q[1] \notin {"version", "plugins"} => (q \in DOMAIN t2 /\ t2[q] = t1[q])
  /\ \A q \in DOMAIN t2 : q[1] \notin {"version", "plugins"} => q \in DOMAIN t1

\* The runtime entries outside the named ones are the same in both trees.
SameOtherRuntimes(t1, t2, names) ==
  /\ RuntimeNames(t1) \ names = RuntimeNames(t2) \ names
  /\ \A n \in RuntimeNames(t1) \ names : SameAt(t1, t2, EntryPath(n))

\* The default pointers of the first tree that reference none of the named
\* runtimes are the same in the second.
SameOtherDefaults(t1, t2, names) ==
  /\ (Has(t1, DefaultRuntimeNamePath) /\ ~DefaultNameAmong(t1, names))
       => SameAt(t1, t2, DefaultRuntimeNamePath)
  /\ (Has(t1, DefaultRuntimePath) /\ ~DefaultRuntimeAmong(t1, names))
       => SameAt(t1, t2, DefaultRuntimePath)

\* C16, as claimed: Update and Revert leave every section of its own, every
\* runtime entry that is not managed and every default pointer that does not
\* reference a managed runtime as it was.
C16_Frame ==
  lastOp.op \in {"Update", "Revert"} =>
    /\ SameSections(before, tree)
    /\ SameOtherRuntimes(before, tree, ManagedNames(lastOp.runtimeClass))
    /\ SameOtherDefaults(before, tree, ManagedNames(lastOp.runtimeClass))

\* C16, amended: the same, but Update with setAsDefault overwrites the
\* default pointer its policy uses, default_runtime_name with
\* UseDefaultRuntimeName and default_runtime in legacy mode, whatever it
\* referenced; the other pointer is as it was.  In the cases of
\* TestUpdateV1ConfigWithRuncPresent the runc entry is the expected one.
C16_FrameButDefault ==
  lastOp.op \in {"Update", "Revert"} =>
    LET names == ManagedNames(lastOp.runtimeClass)
        asDefault == lastOp.op = "Update" /\ lastOp.setAsDefault
    IN /\ SameSections(before, tree)
       /\ SameOtherRuntimes(before, tree, names)
       /\ ~asDefault => SameOtherDefaults(before, tree, names)
       /\ (asDefault /\ config.UseDefaultRuntimeName) =>
            /\ tree[DefaultRuntimeNamePath] = StrV(<<SelectedName>>)
            /\ SameAt(before, tree, DefaultRuntimePath)
       /\ (asDefault /\ ~config.UseDefaultRuntimeName) =>
            /\ BinaryAt(tree, DefaultRuntimePath) = ManagedBinary(SelectedName)
            /\ SameAt(before, tree, DefaultRuntimeNamePath)
       /\ ( /\ lastOp.op = "Update"
            /\ before = runcConfigMapV1(RuncBinary)
            /\ lastOp.runtimeClass \in testRuntimeClasses )
          => SubTree(tree, RuncPath) = expectedRuncV1

\* After an Update and a Revert the section, the runc entry and the
\* pointers at runc are all as they were.
C16_Witness ==
  /\ lastOp.op = "Revert"
  /\ nOps = 2
  /\ lastOp.runtimeClass = "nvidia"
  /\ EntryPath("nvidia") \in DOMAIN before
  /\ <<"debug", "level">> \in DOMAIN tree
  /\ tree[<<"debug", "level">>] = StrV(<<"info">>)
  /\ SubTree(tree, RuncPath) = SubTree(runcDefaultConfig, RuncPath)
  /\ tree[DefaultRuntimeNamePath] = StrV(<<"runc">>)
  /\ BinaryAt(tree, DefaultRuntimePath) = RuncBinary
  /\ EntryPath("nvidia") \notin DOMAIN tree

\* build has returned.
BuildReturned == cpc = "failed" \/ loaded.called

\* C17: build returns the V1 policy exactly when parseVersion yields 1, the
\* V2 policy exactly when it yields 2, and the error "unsupported config
\* version" for any other integer; with an empty path it returns an error
\* and loads nothing; when parseVersion fails it returns an error; a policy
\* and an error are never returned together.
C17_BuildSelectsPolicy ==
  BuildReturned =>
    LET yields(n) == parsed.called /\ parsed.err = Nil /\ parsed.version = n IN
    /\ parsed.called =>
         /\ parsed.version = parseVersion(LoadedDoc, builder.useLegacyConfig).version
         /\ parsed.err = parseVersion(LoadedDoc, builder.useLegacyConfig).err
    /\ config.kind = "V1" <=> yields(1)
    /\ config.kind = "V2" <=> yields(2)
    /\ (parsed.called /\ parsed.err = Nil /\ parsed.version \notin {1, 2}) =>
         (buildErr = "unsupported config version" /\ config = NoConfig)
    /\ builder.path = "" =>
         (buildErr = "config path is empty" /\ ~loaded.called /\ ~parsed.called /\ config = NoConfig)
    /\ (parsed.called /\ parsed.err # Nil) =>
         (buildErr = "failed to parse config version" /\ config = NoConfig)
    /\ (buildErr # Nil) <=> (config = NoConfig)
    /\ (cpc = "failed") <=> (buildErr # Nil)

\* A file with version = 3: no policy, the version is not supported.
C17_Witness ==
  /\ cpc = "failed"
  /\ file.kind = "file"
  /\ parsed.called
  /\ parsed.err = Nil
  /\ parsed.version = 3
  /\ buildErr = "unsupported config version"
  /\ config = NoConfig

\* build has run on a path where there is nothing.
BuiltOnMissing == BuildReturned /\ builder.path # "" /\ file.kind = "missing"

\* C18: a config path that does not exist is no error: loadConfig gives the
\* empty document, and build returns the V2 policy when useLegacyConfig is
\* false and the V1 policy when it is true, with UseDefaultRuntimeName the
\* negation of useLegacyConfig and the runtime type io.containerd.runc.v2
\* when none was given.
C18_MissingPath ==
  BuiltOnMissing =>
    /\ loaded.called /\ loaded.err = Nil
    /\ loaded.loadFile = "/dev/null"
    /\ buildErr = Nil
    /\ cpc = "built"
    /\ nOps = 0 => tree = EmptyTree
    /\ config.kind = (IF builder.useLegacyConfig THEN "V1" ELSE "V2")
    /\ config.UseDefaultRuntimeName = ~builder.useLegacyConfig
    /\ config.RuntimeType = (IF builder.runtimeType = <<>>
                               THEN <<"io.containerd.runc.v2">>
                               ELSE builder.runtimeType)

\* No file, no runtime type, not legacy: the V2 policy with the default type.
C18_Witness ==
  /\ BuiltOnMissing
  /\ ~builder.useLegacyConfig
  /\ builder.runtimeType = <<>>
  /\ config.kind = "V2"
  /\ config.UseDefaultRuntimeName
  /\ config.RuntimeType = <<"io.containerd.runc.v2">>
  /\ tree = EmptyTree

\* C19: when the config path names a directory, loadConfig returns the error
\* "config file is a directory" before toml.LoadFile is given the path.
C19_DirectoryError ==
  (BuildReturned /\ builder.path # "" /\ file.kind = "dir") =>
    /\ loaded.err = "config file is a directory"
    /\ loaded.loadFile = "none"

\* build has selected the V1 policy and Update has run.
UpdatedV1 == lastOp.op = "Update" /\ config.kind = "V1"

\* build on a file that holds the tree.
Redetected(useLegacyConfig) ==
  build([path |-> "/etc/containerd/config.toml", runtimeType |-> builder.runtimeType,
         useLegacyConfig |-> useLegacyConfig],
        [kind |-> "file", doc |-> tree])

\* C20: after Update on a tree for which build selected the V1 policy the
\* tree holds the integer version 1, and the version is detected as 1 and the
\* V1 policy selected again, for either value of useLegacyConfig.
C20_VersionStable ==
  UpdatedV1 =>
    /\ Has(tree, <<"version">>)
    /\ tree[<<"version">>] = IntV(1)
    /\ \A l \in BOOLEAN :
         /\ parseVersion(tree, l) = [version |-> 1, err |-> Nil]
         /\ Redetected(l).err = Nil
         /\ Redetected(l).config.kind = "V1"

\* A file with content and no version key, not in legacy mode: V1 before and
\* after the Update.
C20_Witness ==
  /\ UpdatedV1
  /\ parsed.called
  /\ ~builder.useLegacyConfig
  /\ <<"version">> \notin DOMAIN before
  /\ <<"debug", "level">> \in DOMAIN before
  /\ tree[<<"version">>] = IntV(1)
  /\ Redetected(FALSE).config.kind = "V1"

====
